---------------------------- MODULE Spec2Model ----------------------------
(***************************************************************************)
(* Handle Agent (src/web/src/app/page.tsx): the handle generator           *)
(* (normalizeName, toBaseTokens, hashString, composeHandle,                *)
(* generateSuggestions) and the page around it (Home, CopyButton).         *)
(*                                                                         *)
(* A JavaScript string is a sequence of characters; a character is a       *)
(* one-letter TLA+ string, or "U+XXXX" for a character outside printable   *)
(* ASCII.  A JavaScript number that can leave the 32-bit range is a pair   *)
(* of 16-bit halves [hi, lo] standing for hi * 65536 + lo.                 *)
(***************************************************************************)
EXTENDS Integers, Sequences, FiniteSets, Bags, TLC

VARIABLES
    pc,             \* function harness: "idle", or "returned" after a call
    call,           \* function harness: the function that was called
    args,           \* function harness: its arguments
    ret,            \* function harness: what it returned
    locals,         \* function harness: the callee's local variables at its end
    name,           \* Home: useState("") - the text in the input
    submittedName,  \* Home: useState<string | null>(null)
    salt,           \* Home: useState(() => Date.now())
    suggestions,    \* Home: the useMemo value of the last render
    crashed,        \* Home: a render threw
    hasClipboard,   \* "clipboard" in navigator
    buttons,        \* CopyButton instances mounted: key -> copied
    pending,        \* bag of clipboard writes in flight: [live, key]
    timers,         \* bag of setTimeout callbacks not yet run, by button key
    unhandled,      \* a handleCopy promise rejected
    lastEvent       \* the event handled last: [type, live, key]

coreVars == <<pc, call, args, ret, locals>>

homeVars == <<name, submittedName, salt, suggestions, crashed>>

copyVars == <<hasClipboard, buttons, pending, timers, unhandled>>

vars == <<pc, call, args, ret, locals, name, submittedName, salt, suggestions,
          crashed, hasClipboard, buttons, pending, timers, unhandled, lastEvent>>

---------------------------------------------------------------------------
(* Characters and the JavaScript string built-ins the source uses.         *)

LowerLetters == <<"a", "b", "c", "d", "e", "f", "g", "h", "i", "j", "k", "l", "m", "n", "o", "p", "q", "r", "s", "t", "u", "v", "w", "x", "y", "z">>
UpperLetters == <<"A", "B", "C", "D", "E", "F", "G", "H", "I", "J", "K", "L", "M", "N", "O", "P", "Q", "R", "S", "T", "U", "V", "W", "X", "Y", "Z">>
DigitChars == <<"0", "1", "2", "3", "4", "5", "6", "7", "8", "9">>

Range(s) == {s[i] : i \in 1..Len(s)}

IndexIn(s, c) == CHOOSE i \in 1..Len(s) : s[i] = c

\* Characters outside [A-Za-z0-9] that the model's inputs and the catalog use,
\* with their UTF-16 code units.
OtherCharCodes ==
    (" " :> 32) @@ ("!" :> 33) @@ ("(" :> 40) @@ (")" :> 41) @@ ("-" :> 45) @@
    (":" :> 58) @@ ("@" :> 64) @@ ("_" :> 95) @@ ("U+0009" :> 9) @@
    ("U+00E9" :> 233) @@ ("U+0301" :> 769)

LowerSet == Range(LowerLetters)

UpperSet == Range(UpperLetters)

DigitSet == Range(DigitChars)

CharCodeTable ==
    [c \in LowerSet \cup UpperSet \cup DigitSet \cup DOMAIN OtherCharCodes |->
        IF c \in LowerSet THEN 96 + IndexIn(LowerLetters, c)
        ELSE IF c \in UpperSet THEN 64 + IndexIn(UpperLetters, c)
        ELSE IF c \in DigitSet THEN 47 + IndexIn(DigitChars, c)
        ELSE OtherCharCodes[c]]

\* String.prototype.charCodeAt for one character.
charCodeAt(c) == CharCodeTable[c]

\* [a-zA-Z0-9]
IsAsciiAlnum(c) == c \in LowerSet \/ c \in UpperSet \/ c \in DigitSet

\* \s of a regular expression, and what String.prototype.trim removes.
IsWhitespace(c) == c \in {" ", "U+0009"}

\* [\u0300-\u036f]
IsCombiningMark(c) == charCodeAt(c) >= 768 /\ charCodeAt(c) <= 879

LowerCaseTable == [c \in UpperSet |-> LowerLetters[IndexIn(UpperLetters, c)]]

UpperCaseTable == [c \in LowerSet |-> UpperLetters[IndexIn(LowerLetters, c)]]

toLowerCaseChar(c) == IF c \in UpperSet THEN LowerCaseTable[c] ELSE c

toUpperCaseChar(c) == IF c \in LowerSet THEN UpperCaseTable[c] ELSE c

toLowerCase(s) == [i \in 1..Len(s) |-> toLowerCaseChar(s[i])]

toUpperCase(s) == [i \in 1..Len(s) |-> toUpperCaseChar(s[i])]

RECURSIVE Concat(_)
Concat(ss) == IF ss = <<>> THEN <<>> ELSE Head(ss) \o Concat(Tail(ss))

\* Array.prototype.join
join(parts, sep) ==
    Concat([i \in 1..Len(parts) |-> IF i = 1 THEN parts[i] ELSE sep \o parts[i]])

RECURSIVE SplitFrom(_, _, _)
SplitFrom(s, sep, cur) ==
    IF s = <<>> THEN <<cur>>
    ELSE IF Head(s) = sep THEN <<cur>> \o SplitFrom(Tail(s), sep, <<>>)
    ELSE SplitFrom(Tail(s), sep, Append(cur, Head(s)))

\* String.prototype.split with a one-character separator ("".split(" ") is [""]).
split(s, sep) == SplitFrom(s, sep, <<>>)

\* String.prototype.slice(start) and slice(0, end), 0-based as in the source.
sliceFrom(s, start) == SubSeq(s, start + 1, Len(s))

sliceTo(s, end) == SubSeq(s, 1, IF Len(s) < end THEN Len(s) ELSE end)

\* String.prototype.trim
trim(s) ==
    LET keep == {i \in 1..Len(s) : ~IsWhitespace(s[i])}
    IN  IF keep = {} THEN <<>>
        ELSE SubSeq(s, CHOOSE i \in keep : \A j \in keep : i <= j,
                       CHOOSE i \in keep : \A j \in keep : j <= i)

\* String.prototype.normalize("NFD"): canonical decomposition.
normalizeNFD(s) ==
    Concat([i \in 1..Len(s) |->
        IF s[i] = "U+00E9" THEN <<"e", "U+0301">> ELSE <<s[i]>>])

\* .replace(/[\u0300-\u036f]/g, "")
removeCombiningMarks(s) ==
    Concat([i \in 1..Len(s) |-> IF IsCombiningMark(s[i]) THEN <<>> ELSE <<s[i]>>])

\* .replace(/[^a-zA-Z0-9\s]/g, " ")
replaceNonAlnum(s) ==
    [i \in 1..Len(s) |->
        IF IsAsciiAlnum(s[i]) \/ IsWhitespace(s[i]) THEN s[i] ELSE " "]

\* collapseWhitespace with the /\s+/g replacement left out.
collapseWhitespaceMissing(s) == s

\* .replace(/\s+/g, " ")
collapseWhitespace(s) ==
    Concat([i \in 1..Len(s) |->
        IF ~IsWhitespace(s[i]) THEN <<s[i]>>
        ELSE IF i = 1 \/ ~IsWhitespace(s[i - 1]) THEN <<" ">>
        ELSE <<>>])

\* .replace(/[^a-z0-9]/gi, "")
removeNonAlnum(s) ==
    Concat([i \in 1..Len(s) |-> IF IsAsciiAlnum(s[i]) THEN <<s[i]>> ELSE <<>>])

---------------------------------------------------------------------------
(* Numbers.                                                                *)

\* The remainder operator of JavaScript: the sign of the dividend.
JsRem(a, b) == IF a >= 0 THEN a % b ELSE -((-a) % b)

RECURSIVE NatToString(_)
NatToString(n) ==
    IF n < 10 THEN <<DigitChars[n + 1]>>
    ELSE Append(NatToString(n \div 10), DigitChars[(n % 10) + 1])

\* `${n}` for an integer n.
NumberToString(n) == IF n < 0 THEN <<"-">> \o NatToString(-n) ELSE NatToString(n)

Hi16(x) == x \div 65536

Lo16(x) == x % 65536

\* ToInt32 of hi * 65536 + lo, for halves that may be out of range.
ToInt32(hi, lo) ==
    LET l == lo % 65536
        h == (hi + (lo \div 65536)) % 65536
    IN  (IF h >= 32768 THEN h - 65536 ELSE h) * 65536 + l

\* x << 5 on an int32.
ShiftLeft5(x) == ToInt32(Hi16(x) * 32, Lo16(x) * 32)

\* Math.abs followed by a wrap to int32: -2^31 stays negative.
MathAbsInt32(x) ==
    IF x >= 0 THEN [hi |-> Hi16(x), lo |-> Lo16(x)]
    ELSE IF x = (-32768) * 65536 THEN [hi |-> -32768, lo |-> 0]
    ELSE [hi |-> Hi16(-x), lo |-> Lo16(-x)]

\* Math.abs of an int32, as a number [hi, lo]: Math.abs(-2^31) is 2^31.
MathAbs(x) ==
    IF x >= 0 THEN [hi |-> Hi16(x), lo |-> Lo16(x)]
    ELSE IF Lo16(x) = 0 THEN [hi |-> -Hi16(x), lo |-> 0]
    ELSE [hi |-> -Hi16(x) - 1, lo |-> 65536 - Lo16(x)]

\* n % m for a number n >= 0 given as [hi, lo].
NumberMod(n, m) == ((n.hi % m) * (65536 % m) + n.lo) % m

---------------------------------------------------------------------------
(* The generator.                                                          *)

PLATFORM_CONFIGS == <<
    [platform |-> <<"I", "n", "s", "t", "a", "g", "r", "a", "m">>,
     prefixes |-> <<<<>>, <<"i", "t", "s">>, <<"h", "e", "l", "l", "o">>, <<"m", "e", "e", "t">>>>,
     suffixes |-> <<<<"g", "r", "a", "m">>, <<"d", "a", "i", "l", "y">>, <<"s", "t", "u", "d", "i", "o">>, <<"j", "o", "u", "r", "n", "a", "l">>, <<"p", "i", "x", "e", "l", "s">>>>,
     highlight |-> "Keep it aesthetic and easy to read."],
    [platform |-> <<"T", "i", "k", "T", "o", "k">>,
     prefixes |-> <<<<>>, <<"h", "e", "y">>, <<"g", "o">>, <<"w", "a", "t", "c", "h">>>>,
     suffixes |-> <<<<"t", "o", "k">>, <<"l", "o", "o", "p", "s">>, <<"c", "l", "i", "p", "s">>, <<"b", "e", "a", "t", "s">>, <<"m", "o", "t", "i", "o", "n">>>>,
     highlight |-> "Short, punchy names work best here."],
    [platform |-> <<"X", " ", "(", "T", "w", "i", "t", "t", "e", "r", ")">>,
     prefixes |-> <<<<>>, <<"r", "e", "a", "l">>, <<"t", "h", "e">>, <<"i", "t", "s">>>>,
     suffixes |-> <<<<"h", "q">>, <<"u", "p", "d", "a", "t", "e", "s">>, <<"l", "i", "v", "e">>, <<"n", "o", "w">>, <<"f", "e", "e", "d">>>>,
     highlight |-> "Fast takes + credibility are key."],
    [platform |-> <<"Y", "o", "u", "T", "u", "b", "e">>,
     prefixes |-> <<<<>>, <<"w", "a", "t", "c", "h">>, <<"t", "e", "a", "m">>, <<"c", "h", "a", "n", "n", "e", "l">>>>,
     suffixes |-> <<<<"t", "v">>, <<"s", "t", "u", "d", "i", "o">>, <<"l", "a", "b">>, <<"v", "i", "s", "i", "o", "n">>, <<"v", "a", "u", "l", "t">>>>,
     highlight |-> "Think long-form and memorable."],
    [platform |-> <<"T", "h", "r", "e", "a", "d", "s">>,
     prefixes |-> <<<<>>, <<"j", "o", "i", "n">>, <<"h", "e", "l", "l", "o">>, <<"w", "i", "t", "h">>>>,
     suffixes |-> <<<<"t", "h", "r", "e", "a", "d", "s">>, <<"l", "o", "o", "p">>, <<"l", "a", "n", "e">>, <<"s", "p", "a", "c", "e">>, <<"w", "a", "v", "e", "s">>>>,
     highlight |-> "Friendly conversational handles stand out."] >>

normalizeName(rawName) ==
    trim(collapseWhitespace(replaceNonAlnum(removeCombiningMarks(normalizeNFD(rawName)))))

\* token[0].toUpperCase() + token.slice(1).toLowerCase(); token[0] of an empty
\* token is undefined, and the call on it throws a TypeError.
capitalize(token) == <<toUpperCaseChar(token[1])>> \o toLowerCase(sliceFrom(token, 1))

\* toBaseTokens testing the raw name, not the normalized one, for emptiness.
toBaseTokensRawTest(n) ==
    LET normalized == normalizeName(n)
        tokens == split(normalized, " ")
        rest == sliceFrom(tokens, 1)
    IN  IF n = <<>> THEN [kind |-> "null"]
        ELSE IF \E i \in 1..Len(rest) : rest[i] = <<>> THEN [kind |-> "throw"]
        ELSE [kind |-> "BaseTokens",
              raw |-> normalized,
              tokens |-> tokens,
              compact |-> toLowerCase(join(tokens, <<>>)),
              snake |-> join([i \in 1..Len(tokens) |-> toLowerCase(tokens[i])], <<"_">>),
              hybrid |-> toLowerCase(tokens[1])
                         \o join([i \in 1..Len(rest) |-> capitalize(rest[i])], <<>>)]

toBaseTokens(n) ==
    LET normalized == normalizeName(n)
        tokens == split(normalized, " ")
        rest == sliceFrom(tokens, 1)
    IN  IF normalized = <<>> THEN [kind |-> "null"]
        ELSE IF Len(tokens) = 0 THEN [kind |-> "null"]
        ELSE IF \E i \in 1..Len(rest) : rest[i] = <<>> THEN [kind |-> "throw"]
        ELSE [kind |-> "BaseTokens",
              raw |-> normalized,
              tokens |-> tokens,
              compact |-> toLowerCase(join(tokens, <<>>)),
              snake |-> join([i \in 1..Len(tokens) |-> toLowerCase(tokens[i])], <<"_">>),
              hybrid |-> toLowerCase(tokens[1])
                         \o join([i \in 1..Len(rest) |-> capitalize(rest[i])], <<>>)]

\* hash = (hash << 5) - hash + charCode; hash |= 0;
hashStep(hash, charCode) ==
    LET shifted == ShiftLeft5(hash)
    IN  ToInt32(Hi16(shifted) - Hi16(hash), Lo16(shifted) - Lo16(hash) + charCode)

RECURSIVE hashFold(_, _)
hashFold(hash, value) ==
    IF value = <<>> THEN hash
    ELSE LET next == hashStep(hash, charCodeAt(Head(value)))
         IN  IF next \in Int THEN hashFold(next, Tail(value)) ELSE next

hashValue(input, s) == input \o <<":">> \o NumberToString(s)

hashString(input, s) == MathAbs(hashFold(0, hashValue(input, s)))

\* composeHandle without the slice(0, 20).
composeHandleNoSlice(tokens, prefix, suffix, style, s) ==
    LET base == IF style = "snake" THEN tokens.snake
                ELSE IF style = "hybrid" THEN tokens.hybrid
                ELSE tokens.compact
        prefixPart == IF prefix # <<>> THEN removeNonAlnum(prefix) ELSE <<>>
        suffixPart == IF suffix # <<>> THEN removeNonAlnum(suffix) ELSE <<>>
        trimmed == toLowerCase(prefixPart \o base \o suffixPart)
    IN  IF Len(trimmed) >= 4 THEN trimmed
        ELSE trimmed \o NumberToString(JsRem(s, 1000))

\* composeHandle without the toLowerCase() of the composed handle.
composeHandleNoLower(tokens, prefix, suffix, style, s) ==
    LET base == IF style = "snake" THEN tokens.snake
                ELSE IF style = "hybrid" THEN tokens.hybrid
                ELSE tokens.compact
        prefixPart == IF prefix # <<>> THEN removeNonAlnum(prefix) ELSE <<>>
        suffixPart == IF suffix # <<>> THEN removeNonAlnum(suffix) ELSE <<>>
        trimmed == sliceTo(prefixPart \o base \o suffixPart, 20)
    IN  IF Len(trimmed) >= 4 THEN trimmed
        ELSE trimmed \o NumberToString(JsRem(s, 1000))

composeHandle(tokens, prefix, suffix, style, s) ==
    LET base == IF style = "snake" THEN tokens.snake
                ELSE IF style = "hybrid" THEN tokens.hybrid
                ELSE tokens.compact
        prefixPart == IF prefix # <<>> THEN removeNonAlnum(prefix) ELSE <<>>
        suffixPart == IF suffix # <<>> THEN removeNonAlnum(suffix) ELSE <<>>
        rawHandle == toLowerCase(prefixPart \o base \o suffixPart)
        trimmed == sliceTo(rawHandle, 20)
    IN  IF Len(trimmed) >= 4 THEN trimmed
        ELSE trimmed \o NumberToString(JsRem(s, 1000))

styles == <<"compact", "snake", "hybrid">>

\* Array.prototype.push in place of Set.prototype.add: no deduplication.
setAddNoDedup(set, x) == Append(set, x)

\* Set.prototype.add on a Set kept in insertion order.
setAdd(set, x) == IF x \in Range(set) THEN set ELSE Append(set, x)

stylePick(platformSeed, attempt) ==
    styles[((platformSeed + attempt) % Len(styles)) + 1]

\* prefixPick stepping by 2: only two of the four prefixes are ever chosen.
prefixPickStep2(config, platformSeed, attempt) ==
    config.prefixes[((platformSeed + attempt * 2) % Len(config.prefixes)) + 1]

prefixPick(config, platformSeed, attempt) ==
    config.prefixes[((platformSeed + attempt * 3) % Len(config.prefixes)) + 1]

\* suffixPick stepping by 3: the suffix changes with the attempt.
suffixPickStep3(config, platformSeed, attempt) ==
    config.suffixes[((platformSeed + attempt * 3) % Len(config.suffixes)) + 1]

suffixPick(config, platformSeed, attempt) ==
    config.suffixes[((platformSeed + attempt * 5) % Len(config.suffixes)) + 1]

\* The while loop of generateSuggestions; trace records what each attempt chose.
RECURSIVE candidateLoop(_, _, _, _, _, _, _)
candidateLoop(config, parsed, s, platformSeed, handles, attempt, trace) ==
    IF Len(handles) < 3 /\ attempt < 15 THEN
        LET style == stylePick(platformSeed, attempt)
            prefix == prefixPick(config, platformSeed, attempt)
            suffix == suffixPick(config, platformSeed, attempt)
            candidate == composeHandle(parsed, prefix, suffix, style, s)
        IN  candidateLoop(config, parsed, s, platformSeed,
                IF Len(candidate) >= 4 THEN setAdd(handles, candidate) ELSE handles,
                attempt + 1,
                Append(trace, [attempt |-> attempt, style |-> style, prefix |-> prefix,
                               suffix |-> suffix, candidate |-> candidate]))
    ELSE [handles |-> handles, attempt |-> attempt, trace |-> trace]

\* One iteration of the for loop over PLATFORM_CONFIGS, up to the push.
platformRun(config, parsed, s) ==
    LET platformSeed ==
            NumberMod(hashString(config.platform \o <<":">> \o parsed.raw, s), 9973)
        loop == candidateLoop(config, parsed, s, platformSeed, <<>>, 0, <<>>)
        forced == Len(loop.handles) < 3
    IN  [platformSeed |-> platformSeed,
         attempt |-> loop.attempt,
         trace |-> loop.trace,
         forced |-> forced,
         handles |-> IF forced
                     THEN setAdd(loop.handles,
                                 composeHandle(parsed, <<>>, <<>>, "compact", s + 1))
                     ELSE loop.handles]

platformSuggestion(config, run) ==
    [platform |-> config.platform,
     handles |-> [i \in 1..Len(run.handles) |-> <<"@">> \o run.handles[i]],
     highlight |-> config.highlight]

\* generateSuggestions with its per-platform local variables.
generateRun(n, s) ==
    LET parsed == toBaseTokens(n)
        runs == [i \in 1..Len(PLATFORM_CONFIGS) |->
                    platformRun(PLATFORM_CONFIGS[i], parsed, s)]
    IN  IF parsed.kind = "throw" THEN [kind |-> "throw", value |-> <<>>, runs |-> <<>>]
        ELSE IF parsed.kind = "null" THEN [kind |-> "return", value |-> <<>>, runs |-> <<>>]
        ELSE [kind |-> "return",
              value |-> [i \in 1..Len(runs) |->
                            platformSuggestion(PLATFORM_CONFIGS[i], runs[i])],
              runs |-> runs]

generateSuggestions(n, s) ==
    LET run == generateRun(n, s) IN [kind |-> run.kind, value |-> run.value]

---------------------------------------------------------------------------
(* Inputs of the bounded model.                                            *)

MaxNameLen == 3

Alphabet == {"a", "B", " ", "!"}

\* Names that reach the 20-character cut, a prefix that repeats the base,
\* a two-character handle body and a hash accumulator of -2^31.
SpecialNames ==
    {<<"L", "u", "n", "a", "r", " ", "L", "a", "b", "s">>, <<"g", "o", "g", "o", "g", "o", "g", "o", "g", "o", "g", "o", "g", "o", "g", "o", "g", "o", "g", "o", "g", "o">>, <<"i", "t", "s", "i", "t", "s", "i", "t", "s", "i", "t", "s", "i", "t", "s", "i", "t", "s", "i", "t", "s", "i", "t", "s">>,
     <<"T", "t", "y", "q", "g", "k", "f">>, <<"U+0009">>, <<"U+00E9">>,
     <<"C", "a", "f", "U+00E9", "U+0009", "9">>}

NameInputs == UNION {[1..k -> Alphabet] : k \in 0..MaxNameLen} \cup SpecialNames

\* Stand-ins for Date.now() and for caller-supplied salts.
SaltInputs == {-1234, -5, 0, 1, 42, 1000}

HashInputs ==
    NameInputs \cup {PLATFORM_CONFIGS[i].platform \o <<":">> \o <<"L", "u", "n", "a", "r", " ", "L", "a", "b", "s">> :
                        i \in 1..Len(PLATFORM_CONFIGS)}

TokenInputs == {toBaseTokens(n) : n \in NameInputs} \ {[kind |-> "null"], [kind |-> "throw"]}

PrefixInputs == {<<>>, <<"i", "t", "s">>, <<"c", "h", "a", "n", "n", "e", "l">>, <<"a", "-", "b">>, <<"-">>}

SuffixInputs == {<<>>, <<"h", "q">>, <<"t", "h", "r", "e", "a", "d", "s">>, <<"x", "_", "y">>, <<"!">>}

---------------------------------------------------------------------------
(* The generator's functions, called one at a time.                        *)

CoreInit ==
    /\ pc = "idle"
    /\ call = "none"
    /\ args = <<>>
    /\ ret = <<>>
    /\ locals = <<>>
    /\ name = <<>>
    /\ submittedName = [kind |-> "null"]
    /\ salt = 0
    /\ suggestions = <<>>
    /\ crashed = FALSE
    /\ hasClipboard = TRUE
    /\ buttons = <<>>
    /\ pending = EmptyBag
    /\ timers = EmptyBag
    /\ unhandled = FALSE
    /\ lastEvent = [type |-> "mount", live |-> FALSE, key |-> <<>>]

CallToBaseTokens ==
    /\ pc = "idle"
    /\ \E n \in NameInputs :
        /\ call' = "toBaseTokens"
        /\ args' = [name |-> n]
        /\ ret' = toBaseTokens(n)
        /\ locals' = [normalized |-> normalizeName(n)]
    /\ pc' = "returned"

CallHashString ==
    /\ pc = "idle"
    /\ \E input \in HashInputs, s \in SaltInputs :
        /\ call' = "hashString"
        /\ args' = [input |-> input, salt |-> s]
        /\ ret' = hashString(input, s)
        /\ locals' = [value |-> hashValue(input, s),
                      hash |-> hashFold(0, hashValue(input, s))]
    /\ pc' = "returned"

CallComposeHandle ==
    /\ pc = "idle"
    /\ \E tokens \in TokenInputs, prefix \in PrefixInputs, suffix \in SuffixInputs,
          style \in Range(styles), s \in SaltInputs :
        /\ call' = "composeHandle"
        /\ args' = [tokens |-> tokens, prefix |-> prefix, suffix |-> suffix,
                    style |-> style, salt |-> s]
        /\ ret' = composeHandle(tokens, prefix, suffix, style, s)
        /\ locals' = <<>>
    /\ pc' = "returned"

CallGenerateSuggestions ==
    /\ pc = "idle"
    /\ \E n \in NameInputs, s \in SaltInputs :
        LET run == generateRun(n, s)
        IN  /\ call' = "generateSuggestions"
            /\ args' = [name |-> n, salt |-> s]
            /\ ret' = [kind |-> run.kind, value |-> run.value]
            /\ locals' = [parsed |-> toBaseTokens(n), runs |-> run.runs]
    /\ pc' = "returned"

Return ==
    /\ pc = "returned"
    /\ pc' = "idle"
    /\ call' = "none"
    /\ args' = <<>>
    /\ ret' = <<>>
    /\ locals' = <<>>

CoreNext ==
    \/ CallToBaseTokens /\ UNCHANGED <<homeVars, copyVars, lastEvent>>
    \/ CallHashString /\ UNCHANGED <<homeVars, copyVars, lastEvent>>
    \/ CallComposeHandle /\ UNCHANGED <<homeVars, copyVars, lastEvent>>
    \/ CallGenerateSuggestions /\ UNCHANGED <<homeVars, copyVars, lastEvent>>
    \/ Return /\ UNCHANGED <<homeVars, copyVars, lastEvent>>

SpecCore == CoreInit /\ [][CoreNext]_vars

---------------------------------------------------------------------------
(* The page: Home and its CopyButtons.                                     *)

MaxInFlight == 2

MaxClickable == 2

\* What the user types into the input.
TypedNames == {<<>>, <<" ", " ">>, <<"!">>, <<" ", "A", "l", " ">>, <<"L", "u", "n", "a", "r", " ", "L", "a", "b", "s">>}

\* Values Date.now() returns.
DateNow == {1, 42}

Null == [kind |-> "null"]

String(v) == [kind |-> "string", value |-> v]

\* !x for x a string or null.
Falsy(x) == x.kind = "null" \/ x.value = <<>>

NoKey == <<>>

Event(type) == [type |-> type, live |-> FALSE, key |-> NoKey]

CopyEvent(type, e) == [type |-> type, live |-> e.live, key |-> e.key]

\* useMemo(() => ..., [salt, submittedName]): one value per pair of dependencies.
useMemoTable ==
    [n \in {trim(t) : t \in TypedNames} \ {<<>>}, s \in DateNow |->
        generateSuggestions(n, s)]

memoSuggestions(sub, s) ==
    IF Falsy(sub) THEN [kind |-> "return", value |-> <<>>]
    ELSE useMemoTable[sub.value, s]

\* The CopyButtons of a render: one per platform article (key = platform)
\* and handle item (key = handle).
ButtonKeys(list) ==
    UNION {{<<i, list[i].handles[k]>> : k \in 1..Len(list[i].handles)} :
              i \in 1..Len(list)}

\* The buttons the model clicks: the first MaxClickable handles of the first platform.
Clickable(list) ==
    {key \in ButtonKeys(list) :
        /\ key[1] = 1
        /\ \E k \in 1..MaxClickable :
            k <= Len(list[1].handles) /\ key[2] = list[1].handles[k]}

\* React reconciliation: a button whose key stays keeps its state, a new
\* one mounts with copied = false.
reconcile(old, list) ==
    [key \in ButtonKeys(list) |-> IF key \in DOMAIN old THEN old[key] ELSE FALSE]

\* A write in flight whose button unmounted: its continuation still runs,
\* on a component that is gone.
orphan(e, list) ==
    IF e.live /\ e.key \in ButtonKeys(list) THEN e ELSE [live |-> FALSE, key |-> NoKey]

orphanAll(bag, list) ==
    LET images == {orphan(e, list) : e \in BagToSet(bag)}
    IN  [x \in images |->
            BagCardinality([e \in {d \in BagToSet(bag) : orphan(d, list) = x} |-> bag[e]])]

liveTimers(bag, list) ==
    [key \in BagToSet(bag) \cap ButtonKeys(list) |-> bag[key]]

BagAdd(bag, x) == bag (+) SetToBag({x})

BagRemove(bag, x) == bag (-) SetToBag({x})

\* What a render shows for the useMemo value memo: the list, the buttons
\* that stay or mount, and the continuations whose button is gone.
RenderMemo(memo) ==
    /\ suggestions' = (IF memo.kind = "throw" THEN <<>> ELSE memo.value)
    /\ crashed' = (crashed \/ memo.kind = "throw")
    /\ buttons' = reconcile(buttons, suggestions')
    /\ pending' = orphanAll(pending, suggestions')
    /\ timers' = liveTimers(timers, suggestions')

\* The render that follows a state update of Home.
Render(sub, s) == RenderMemo(memoSuggestions(sub, s))

Init ==
    /\ pc = "idle"
    /\ call = "none"
    /\ args = <<>>
    /\ ret = <<>>
    /\ locals = <<>>
    /\ name = <<>>
    /\ submittedName = Null
    /\ salt \in DateNow
    /\ suggestions = <<>>
    /\ crashed = FALSE
    /\ hasClipboard \in BOOLEAN
    /\ buttons = <<>>
    /\ pending = EmptyBag
    /\ timers = EmptyBag
    /\ unhandled = FALSE
    /\ lastEvent = Event("mount")

\* onChange={(event) => setName(event.target.value)}
TypeName ==
    /\ ~crashed
    /\ \E typed \in TypedNames : name' = typed
    /\ lastEvent' = Event("type")
    /\ UNCHANGED <<submittedName, salt, suggestions, crashed, copyVars>>

\* handleSubmit: the state it sets, [submittedName, salt].
handleSubmit(typed, sub, s, now) ==
    IF trim(typed) = <<>> THEN <<Null, s>> ELSE <<String(trim(typed)), now>>

SubmitTo(next) ==
    /\ submittedName' = next[1]
    /\ salt' = next[2]
    /\ Render(next[1], next[2])

Submit ==
    /\ ~crashed
    /\ \E now \in DateNow : SubmitTo(handleSubmit(name, submittedName, salt, now))
    /\ lastEvent' = Event("submit")
    /\ UNCHANGED <<name, hasClipboard, unhandled>>

\* handleRemix with a salt refreshed whether or not a name was submitted.
handleRemixUnguarded(sub, s, now) == now

\* handleRemix: the salt it sets.
handleRemix(sub, s, now) == IF Falsy(sub) THEN s ELSE now

Remix ==
    /\ ~crashed
    /\ \E now \in DateNow :
        /\ salt' = handleRemix(submittedName, salt, now)
        /\ Render(submittedName, salt')
    /\ lastEvent' = Event("remix")
    /\ UNCHANGED <<name, submittedName, hasClipboard, unhandled>>

\* handleCopy with the catch block left out: the rejection escapes.
handleCopyNoCatch(btns, e) == [buttons |-> btns, unhandled |-> TRUE]

\* catch { setCopied(false); } - on an unmounted button the update is dropped.
handleCopyCatch(btns, e) ==
    [buttons |-> IF e.live THEN [btns EXCEPT ![e.key] = FALSE] ELSE btns,
     unhandled |-> FALSE]

\* handleCopy up to the await: no clipboard, writeText throws, or a write in flight.
ClickCopy ==
    /\ ~crashed
    /\ BagCardinality(pending) + BagCardinality(timers) < MaxInFlight
    /\ \E key \in Clickable(suggestions), outcome \in {"pending", "throws"} :
        LET e == [live |-> TRUE, key |-> key]
            caught == handleCopyCatch(buttons, e)
        IN  IF ~hasClipboard
            THEN /\ lastEvent' = CopyEvent("copy-unsupported", e)
                 /\ UNCHANGED <<buttons, pending, unhandled>>
            ELSE IF outcome = "throws"
            THEN /\ lastEvent' = CopyEvent("copy-throws", e)
                 /\ buttons' = caught.buttons
                 /\ unhandled' = (unhandled \/ caught.unhandled)
                 /\ UNCHANGED pending
            ELSE /\ lastEvent' = CopyEvent("copy", e)
                 /\ pending' = BagAdd(pending, e)
                 /\ UNCHANGED <<buttons, unhandled>>
    /\ UNCHANGED <<homeVars, hasClipboard, timers>>

\* The write succeeded: setCopied(true); setTimeout(() => setCopied(false), 1500).
WriteResolve ==
    /\ ~crashed
    /\ \E e \in BagToSet(pending) :
        /\ pending' = BagRemove(pending, e)
        /\ lastEvent' = CopyEvent("resolve", e)
        /\ IF e.live
           THEN /\ buttons' = [buttons EXCEPT ![e.key] = TRUE]
                /\ timers' = BagAdd(timers, e.key)
           ELSE UNCHANGED <<buttons, timers>>
    /\ UNCHANGED <<homeVars, hasClipboard, unhandled>>

\* The write failed: the catch block runs.
WriteReject ==
    /\ ~crashed
    /\ \E e \in BagToSet(pending) :
        LET caught == handleCopyCatch(buttons, e)
        IN  /\ pending' = BagRemove(pending, e)
            /\ lastEvent' = CopyEvent("reject", e)
            /\ buttons' = caught.buttons
            /\ unhandled' = (unhandled \/ caught.unhandled)
    /\ UNCHANGED <<homeVars, hasClipboard, timers>>

\* () => setCopied(false), 1500 ms after a successful write.
TimerFire ==
    /\ ~crashed
    /\ \E key \in BagToSet(timers) :
        /\ timers' = BagRemove(timers, key)
        /\ buttons' = [buttons EXCEPT ![key] = FALSE]
        /\ lastEvent' = [type |-> "timer", live |-> TRUE, key |-> key]
    /\ UNCHANGED <<homeVars, hasClipboard, pending, unhandled>>

Next ==
    \/ TypeName /\ UNCHANGED coreVars
    \/ Submit /\ UNCHANGED coreVars
    \/ Remix /\ UNCHANGED coreVars
    \/ ClickCopy /\ UNCHANGED coreVars
    \/ WriteResolve /\ UNCHANGED coreVars
    \/ WriteReject /\ UNCHANGED coreVars
    \/ TimerFire /\ UNCHANGED coreVars

Spec == Init /\ [][Next]_vars


---------------------------------------------------------------------------
(* Properties of the page.                                                 *)

NoSubmittedName == submittedName.kind = "null"

C5_Step ==
    /\ (lastEvent'.type = "submit" /\ trim(name) = <<>>) =>
        (submittedName'.kind = "null" /\ suggestions' = <<>>)
    /\ (NoSubmittedName /\ ~(lastEvent'.type = "submit" /\ trim(name) # <<>>)) =>
        (submittedName'.kind = "null" /\ suggestions' = <<>>)
    /\ (NoSubmittedName /\ lastEvent'.type = "remix") =>
        UNCHANGED <<homeVars, copyVars>>
    /\ ~crashed'

\* C5: after a submit of a blank or whitespace-only name the displayed list is
\* empty, and stays empty through remix events until a submit with a
\* non-blank name; remix with no submitted name changes nothing; no event
\* puts the page into an error state.
C5_BlankSubmitShowsNothing == [][C5_Step]_vars

\* A whitespace-only submit that took a displayed list away: a write
\* started from one of its buttons is still in flight.
C5_Witness ==
    /\ lastEvent.type = "submit"
    /\ name = <<" ", " ">>
    /\ NoSubmittedName
    /\ suggestions = <<>>
    /\ pending # EmptyBag

C6_Step ==
    lastEvent'.type = "reject" =>
        /\ ~unhandled'
        /\ lastEvent'.live =>
            /\ lastEvent'.key \in DOMAIN buttons'
            /\ buttons'[lastEvent'.key] = FALSE
        /\ UNCHANGED <<submittedName, salt, suggestions>>

\* C6: a failed clipboard write is caught inside handleCopy, the button's
\* copied flag is false right after, and submittedName, salt and the
\* displayed suggestions are unchanged, however the write interleaves with
\* submit and remix.
C6_CopyFailureIsSwallowed == [][C6_Step]_vars

\* A write that failed on a button showing "Copied" from an earlier write.
C6_Witness ==
    /\ lastEvent.type = "reject"
    /\ lastEvent.live
    /\ lastEvent.key \in BagToSet(timers)
    /\ buttons[lastEvent.key] = FALSE
    /\ ~unhandled
    /\ ~NoSubmittedName

---------------------------------------------------------------------------
(* Properties of the generator.                                            *)

Generated == pc = "returned" /\ call = "generateSuggestions"

NonEmptyName == normalizeName(args.name) # <<>>

CatalogOrder ==
    <<<<"I", "n", "s", "t", "a", "g", "r", "a", "m">>, <<"T", "i", "k", "T", "o", "k">>, <<"X", " ", "(", "T", "w", "i", "t", "t", "e", "r", ")">>, <<"Y", "o", "u", "T", "u", "b", "e">>, <<"T", "h", "r", "e", "a", "d", "s">>>>

\* C1: generateSuggestions returns 5 suggestions, one per catalog entry in
\* catalog order, when the name is non-empty after normalization, and 0
\* suggestions when it normalizes to the empty string, whatever the salt.
C1_FivePerNameOrNone ==
    Generated =>
        /\ ret.kind = "return"
        /\ IF NonEmptyName
           THEN /\ Len(ret.value) = 5
                /\ \A i \in 1..5 : ret.value[i].platform = CatalogOrder[i]
           ELSE ret.value = <<>>

C1_Witness ==
    /\ Generated
    /\ args.name = <<"L", "u", "n", "a", "r", " ", "L", "a", "b", "s">>
    /\ args.salt = 42
    /\ Len(ret.value) = 5
    /\ ret.value[1].handles[1] = <<"@", "l", "u", "n", "a", "r", "l", "a", "b", "s", "p", "i", "x", "e", "l", "s">>

\* C2: for a name that normalizes non-empty and a salt >= 0, every
\* suggestion carries exactly 3 handles, no two of them equal.
C2_ThreeDistinctHandles ==
    (Generated /\ NonEmptyName /\ args.salt >= 0) =>
        \A i \in 1..Len(ret.value) :
            /\ Len(ret.value[i].handles) = 3
            /\ Cardinality(Range(ret.value[i].handles)) = 3

\* A run where the loop met a duplicate candidate and still ended with 3.
C2_Witness ==
    /\ Generated
    /\ args.salt >= 0
    /\ \E i \in 1..Len(ret.value) :
        /\ Len(ret.value[i].handles) = 3
        /\ Cardinality({locals.runs[i].trace[k].candidate :
                            k \in 1..Len(locals.runs[i].trace)}) <
           Len(locals.runs[i].trace)

Called(f) == pc = "returned" /\ call = f

\* C3: composeHandle returns a non-empty string of at most 20 characters,
\* also when it pads a handle shorter than 4 characters with salt digits.
C3_ComposeLength ==
    Called("composeHandle") => (Len(ret) >= 1 /\ Len(ret) <= 20)

\* A padded result: the handle body "a" followed by the digits of -1234 % 1000.
C3_Witness ==
    /\ Called("composeHandle")
    /\ args.salt = -1234
    /\ ret = <<"a", "-", "2", "3", "4">>

\* acc * 31 + code wrapped to 32 bits, by multiplication of the halves.
RefStep(acc, code) == ToInt32(Hi16(acc) * 31, Lo16(acc) * 31 + code)

RECURSIVE RefAccs(_, _)
RefAccs(accs, value) ==
    IF value = <<>> THEN accs
    ELSE LET next == RefStep(accs[Len(accs)], charCodeAt(Head(value)))
         IN  IF next \in Int THEN RefAccs(Append(accs, next), Tail(value)) ELSE accs

MinInt32 == (-32768) * 65536

\* C4: hashString returns a value >= 0 equal to the absolute value of the
\* signed 32-bit accumulator folded over "input:salt" by acc * 31 + code
\* with wraparound from 0, also when the accumulator ends at -2^31; and the
\* shift form of the code agrees with acc * 31 + code at every step.
C4_HashIsAbsOfFold ==
    Called("hashString") =>
        LET value == args.input \o <<":">> \o NumberToString(args.salt)
            accs == RefAccs(<<0>>, value)
            final == accs[Len(accs)]
        IN  /\ locals.value = value
            /\ \A i \in 1..Len(value) :
                hashStep(accs[i], charCodeAt(value[i])) = accs[i + 1]
            /\ locals.hash = final
            /\ ret.hi >= 0
            /\ ret.lo \in 0..65535
            /\ IF final = MinInt32 THEN ret = [hi |-> 32768, lo |-> 0]
               ELSE /\ ret.hi <= 32767
                    /\ ret.hi * 65536 + ret.lo = (IF final < 0 THEN -final ELSE final)

C4_Witness ==
    /\ Called("hashString")
    /\ locals.hash = MinInt32
    /\ ret = [hi |-> 32768, lo |-> 0]

IsToken(t) == Len(t) >= 1 /\ \A k \in 1..Len(t) : IsAsciiAlnum(t[k])

C8_LoopFillsWithoutFallback ==
    (Generated /\ NonEmptyName) =>
        \A i \in 1..Len(locals.runs) :
            /\ ~locals.runs[i].forced
            /\ locals.runs[i].attempt <= 4
            /\ Len(locals.runs[i].handles) = 3
            /\ \A k \in 1..Len(ret.value[i].handles) :
                /\ Head(ret.value[i].handles[k]) = "@"
                /\ Len(ret.value[i].handles[k]) >= 5

C8_Witness ==
    /\ Generated
    /\ \E i \in 1..Len(locals.runs) :
        /\ locals.runs[i].attempt = 4
        /\ ~locals.runs[i].forced
        /\ Len(ret.value[i].handles) = 3

\* C9: within one platform every attempt selects suffixes[platformSeed mod 5]:
\* every catalog suffix list has 5 entries, so the index does not depend on
\* the attempt counter.
C9_SuffixFixedPerPlatform ==
    (Generated /\ NonEmptyName) =>
        \A i \in 1..Len(locals.runs) :
            LET run == locals.runs[i]
                config == PLATFORM_CONFIGS[i]
                chosen == config.suffixes[(run.platformSeed % 5) + 1]
            IN  /\ Len(config.suffixes) = 5
                /\ \A k \in 1..Len(run.trace) : run.trace[k].suffix = chosen
                /\ \A attempt \in 0..14 :
                    suffixPick(config, run.platformSeed, attempt) = chosen

\* Three attempts with three different prefixes and one suffix.
C9_Witness ==
    /\ Generated
    /\ \E i \in 1..Len(locals.runs) :
        LET trace == locals.runs[i].trace
        IN  /\ Len(trace) >= 3
            /\ Cardinality({trace[k].prefix : k \in 1..Len(trace)}) >= 3
            /\ Cardinality({trace[k].suffix : k \in 1..Len(trace)}) = 1

\* C10: composeHandle with style hybrid returns the string it returns with
\* style compact, so the three styles yield at most two distinct handles.
C10_HybridEqualsCompact ==
    Called("composeHandle") =>
        /\ args.style = "hybrid" =>
            ret = composeHandle(args.tokens, args.prefix, args.suffix,
                                "compact", args.salt)
        /\ Cardinality({composeHandle(args.tokens, args.prefix, args.suffix,
                                      st, args.salt) : st \in Range(styles)}) <= 2

C10_Witness ==
    /\ Called("composeHandle")
    /\ args.style = "hybrid"
    /\ args.tokens.hybrid # args.tokens.compact
    /\ args.tokens.snake # args.tokens.compact
    /\ ret = args.prefix \o args.tokens.compact \o <<"h", "q">>

===========================================================================
